---- MODULE Spec2Model ----
(***************************************************************************)
(* Model of video_frames_pipeline.py: the frame sample planner             *)
(* (_compute_sample_indices), the frame extractor (extract_frames), the    *)
(* natural sort key (_natural_key) and the frame assembler                 *)
(* (frames_to_video).                                                      *)
(***************************************************************************)
EXTENDS Integers, Sequences, FiniteSets, TLC

\* ------------------------------------------------------------------ bounds
MaxTotal == 12      \* largest total_frames given to the planner on its own
MaxFrames == 4      \* largest reported / decodable frame count of a video

\* ------------------------------------------------------------ pure helpers
Min(a, b) == IF a <= b THEN a ELSE b

Range(s) == {s[i] : i \in 1..Len(s)}

\* Python round(a / b) for a >= 0, b > 0: ties go to the even neighbour.
RoundHalfEven(a, b) ==
    LET q == a \div b
        r == a % b
    IN  IF 2 * r < b THEN q
        ELSE IF 2 * r > b THEN q + 1
        ELSE IF q % 2 = 0 THEN q ELSE q + 1

\* faulty variant: the numerator uses total_frames instead of total_frames - 1
SampleIndexOffByOne(i, total_frames, num_samples) ==
    RoundHalfEven(i * total_frames, num_samples - 1)

\* faulty variant: the divisor uses num_samples instead of num_samples - 1
SampleIndexWrongDivisor(i, total_frames, num_samples) ==
    RoundHalfEven(i * (total_frames - 1), num_samples)

\* line 80: round(i * (total_frames - 1) / (num_samples - 1))
SampleIndex(i, total_frames, num_samples) ==
    RoundHalfEven(i * (total_frames - 1), num_samples - 1)

\* lines 82-88: remove duplicates, keeping the first occurrence of each value
RECURSIVE UniqFrom(_, _, _)
UniqFrom(indices, k, uniq) ==
    IF k > Len(indices) THEN uniq
    ELSE IF indices[k] \in Range(uniq)
         THEN UniqFrom(indices, k + 1, uniq)
         ELSE UniqFrom(indices, k + 1, Append(uniq, indices[k]))

Uniq(indices) == UniqFrom(indices, 1, <<>>)

\* faulty variant: the cap is one too small
CapSamplesOffByOne(total_frames, num_samples) == Min(num_samples, total_frames - 1)

\* line 74: num_samples = min(num_samples, total_frames)
CapSamples(total_frames, num_samples) == Min(num_samples, total_frames)

\* faulty variant: the middle is rounded up
MiddleIndexRoundedUp(total_frames) == (total_frames + 1) \div 2

\* line 77: total_frames // 2
MiddleIndex(total_frames) == total_frames \div 2

\* lines 63-88: the result is [err |-> "ValueError"] when the function raises
compute_sample_indices(total_frames, num_samples) ==
    IF total_frames <= 0 THEN [err |-> "ValueError", val |-> <<>>]
    ELSE IF num_samples <= 0 THEN [err |-> "ValueError", val |-> <<>>]
    ELSE LET n == CapSamples(total_frames, num_samples)
         IN  IF n = 1 THEN [err |-> "none", val |-> <<MiddleIndex(total_frames)>>]
             ELSE [err |-> "none",
                   val |-> Uniq([k \in 1..n |-> SampleIndex(k - 1, total_frames, n)])]

\* ------------------------------------------------------- names and strings
\* A file name is a sequence of one-character strings.
CharCode ==
    ("0" :> 48) @@ ("1" :> 49) @@ ("2" :> 50) @@ ("3" :> 51) @@ ("4" :> 52) @@
    ("5" :> 53) @@ ("6" :> 54) @@ ("7" :> 55) @@ ("8" :> 56) @@ ("9" :> 57) @@
    ("." :> 46) @@ ("_" :> 95) @@
    ("G" :> 71) @@ ("J" :> 74) @@ ("N" :> 78) @@ ("P" :> 80) @@
    ("a" :> 97) @@ ("b" :> 98) @@ ("e" :> 101) @@ ("f" :> 102) @@ ("g" :> 103) @@
    ("j" :> 106) @@ ("m" :> 109) @@ ("n" :> 110) @@ ("p" :> 112) @@ ("r" :> 114) @@
    ("t" :> 116) @@ ("x" :> 120)

IsDigit(c) == CharCode[c] >= 48 /\ CharCode[c] <= 57

\* str.lower(), one character
LowerChar(c) ==
    IF CharCode[c] >= 65 /\ CharCode[c] <= 90
    THEN CHOOSE d \in DOMAIN CharCode : CharCode[d] = CharCode[c] + 32
    ELSE c

Lower(s) == [i \in 1..Len(s) |-> LowerChar(s[i])]

\* Python's comparison of two strings: code point by code point, a proper
\* prefix being smaller
RECURSIVE StrLess(_, _)
StrLess(s, t) ==
    IF t = <<>> THEN FALSE
    ELSE IF s = <<>> THEN TRUE
    ELSE IF CharCode[Head(s)] # CharCode[Head(t)]
         THEN CharCode[Head(s)] < CharCode[Head(t)]
         ELSE StrLess(Tail(s), Tail(t))

\* position of the last "." of the name, 0 when there is none (str.rfind)
LastDot(name) ==
    LET dots == {i \in 1..Len(name) : name[i] = "."}
    IN  IF dots = {} THEN 0 ELSE CHOOSE i \in dots : \A j \in dots : j <= i

\* pathlib: a leading or a trailing dot starts no suffix
HasSuffix(name) == LastDot(name) > 1 /\ LastDot(name) < Len(name)

\* Path.suffix (the dot included) and Path.stem
Suffix(name) == IF HasSuffix(name) THEN SubSeq(name, LastDot(name), Len(name)) ELSE <<>>

Stem(name) == IF HasSuffix(name) THEN SubSeq(name, 1, LastDot(name) - 1) ELSE name

\* int() of a run of decimal digits
RECURSIVE ParseInt(_)
ParseInt(ds) ==
    IF ds = <<>> THEN 0
    ELSE 10 * ParseInt(SubSeq(ds, 1, Len(ds) - 1)) + (CharCode[ds[Len(ds)]] - 48)

\* re.findall(r"\d+", s)[-1]: the last maximal run of digits of s
LastDigitRun(s) ==
    LET digs == {i \in 1..Len(s) : IsDigit(s[i])}
        last == CHOOSE i \in digs : \A j \in digs : j <= i
        starts == {i \in 1..last : \A j \in i..last : IsDigit(s[j])}
        first == CHOOSE i \in starts : \A j \in starts : i <= j
    IN  SubSeq(s, first, last)

HasDigits(s) == \E i \in 1..Len(s) : IsDigit(s[i])

\* lines 32-39: (int(nums[-1]) if nums else -1, s)
natural_key(name) ==
    LET s == Stem(name)
    IN  <<IF HasDigits(s) THEN ParseInt(LastDigitRun(s)) ELSE -1, s>>

\* Python's tuple comparison k1 < k2 of two natural keys
KeyLess(k1, k2) == k1[1] < k2[1] \/ (k1[1] = k2[1] /\ StrLess(k1[2], k2[2]))

\* sorted(..., key=_natural_key) is stable: an element goes after every
\* element already placed whose key is not greater
RECURSIVE SortedByKey(_)
SortedByKey(listing) ==
    IF listing = <<>> THEN <<>>
    ELSE LET n == Len(listing)
             x == listing[n]
             rest == SortedByKey(SubSeq(listing, 1, n - 1))
             before == {i \in 1..Len(rest) : ~KeyLess(natural_key(x), natural_key(rest[i]))}
             k == Cardinality(before)
         IN  SubSeq(rest, 1, k) \o <<x>> \o SubSeq(rest, k + 1, Len(rest))

\* line 162: p.suffix.lower() in {".png", ".jpg", ".jpeg"}
IsImage(name) ==
    Lower(Suffix(name)) \in {<<".", "p", "n", "g">>, <<".", "j", "p", "g">>,
                             <<".", "j", "p", "e", "g">>}

\* decimal digits of k >= 0
RECURSIVE Digits(_)
Digits(k) ==
    LET d == CHOOSE c \in DOMAIN CharCode : CharCode[c] = 48 + (k % 10)
    IN  IF k < 10 THEN <<d>> ELSE Append(Digits(k \div 10), d)

\* faulty variant: pads to five digits
Format05d(k) ==
    LET ds == Digits(k)
    IN  [i \in 1..(5 - Min(5, Len(ds))) |-> "0"] \o ds

\* f"{k:06d}": zero-padded to at least six digits
Format06d(k) ==
    LET ds == Digits(k)
    IN  [i \in 1..(6 - Min(6, Len(ds))) |-> "0"] \o ds

\* faulty variant: every frame goes to the same file
FrameFileNameNoOrdinal(prefix_, write_ordinal_) ==
    prefix_ \o <<"_">> \o Format06d(0) \o <<".", "p", "n", "g">>

\* line 130: f"{prefix}_{write_ordinal:06d}.png"
FrameFileName(prefix_, write_ordinal_) ==
    prefix_ \o <<"_">> \o Format06d(write_ordinal_) \o <<".", "p", "n", "g">>

\* ------------------------------------------------------------------- state
VARIABLES
    cmd,              \* "plan", "extract" or "assemble": what is being run
    pc,               \* position in the running function
    total_frames,     \* planner on its own: argument
    num_samples,      \* planner on its own: argument
    indices,          \* planner on its own: [err, val] once it has run
    video,            \* [reported, actual]: CAP_PROP_FRAME_COUNT, decodable frames
    open_fail_at,     \* the n-th cv2.VideoCapture() of the run fails to open (0: none)
    num_frames,       \* extract_frames argument
    prefix,           \* extract_frames argument
    imwrite_fail,     \* cv2.imwrite returns False at this write ordinal (-1: never)
    opens_done,       \* number of cv2.VideoCapture() calls made so far
    open_caps,        \* capture handles opened and not yet released
    cap_ok,           \* cap.isOpened() of the current capture
    meta_frame_count, \* local of extract_frames
    count,            \* local of extract_frames (fallback counting pass)
    counted,          \* TRUE when meta_frame_count came from the counting pass
    target_indices,   \* local of extract_frames
    frame_idx,        \* local of extract_frames
    write_ordinal,    \* local of extract_frames
    saved_paths,      \* local of extract_frames
    extract_result,   \* "none", "returned" or the failure raised
    dir,              \* the frames directory: file name -> image
    dir0,             \* the directory as it was before the run
    fps_arg,          \* frames_to_video argument
    ref_video,        \* frames_to_video argument
    codec_ok,         \* whether cv2.VideoWriter opens with the given codec
    listing,          \* what frames_dir.iterdir() returned
    images,           \* local of frames_to_video
    fps,              \* local of frames_to_video
    size,             \* local of frames_to_video: (w, h)
    img_i,            \* position of the write loop in images
    writer,           \* the cv2.VideoWriter: made with fps and size, open, frames written
    assemble_result   \* "none", "returned" or the failure raised

planVars == <<total_frames, num_samples, indices>>

extractInputs == <<video, open_fail_at, num_frames, prefix, imwrite_fail, dir0>>

extractLocals == <<opens_done, open_caps, cap_ok, meta_frame_count, count, counted,
                   target_indices, frame_idx, write_ordinal, saved_paths, extract_result>>

assembleInputs == <<fps_arg, ref_video, codec_ok>>

assembleLocals == <<listing, images, fps, size, img_i, writer, assemble_result>>

vars == <<cmd, pc, planVars, extractInputs, extractLocals, dir, assembleInputs, assembleLocals>>

\* ------------------------------------------------------------------ inputs
NoFps == [some |-> FALSE, val |-> 0]
SomeFps(v) == [some |-> TRUE, val |-> v]

DefaultFps == 30

FpsArgs == {NoFps, SomeFps(0), SomeFps(24)}

NoRef == [given |-> FALSE, exists |-> FALSE, opens |-> FALSE, fps |-> 0]

RefVideos ==
    {NoRef,
     [given |-> TRUE, exists |-> FALSE, opens |-> FALSE, fps |-> 25],
     [given |-> TRUE, exists |-> TRUE, opens |-> FALSE, fps |-> 25],
     [given |-> TRUE, exists |-> TRUE, opens |-> TRUE, fps |-> 0],
     [given |-> TRUE, exists |-> TRUE, opens |-> TRUE, fps |-> 25]}

Prefixes == {<<"f", "r", "a", "m", "e">>, <<"a", "1">>}

VideoSize == <<4, 3>>

\* the image cv2.imwrite stores for the frame read at index idx
VideoFrame(idx) == [src |-> "video", idx |-> idx, size |-> VideoSize, readable |-> TRUE]

\* an image that was in a directory before the run
OtherImage(k, sz, ok) == [src |-> "other", idx |-> k, size |-> sz, readable |-> ok]

EmptyDir == <<>>

\* frame_000009.png left behind by an earlier run
UsedDir ==
    FrameFileName(<<"f", "r", "a", "m", "e">>, 9) :> OtherImage(9, VideoSize, TRUE)

\* frame_000000.png left behind by an earlier run
RerunDir ==
    FrameFileName(<<"f", "r", "a", "m", "e">>, 0) :> OtherImage(0, <<2, 2>>, TRUE)

ExtractDirs == {EmptyDir, UsedDir, RerunDir}

\* frame_000010.png, frame_000002.png, frame_000001.png and a text file
NumberedDir ==
    (FrameFileName(<<"f", "r", "a", "m", "e">>, 10) :> OtherImage(10, VideoSize, TRUE)) @@
    (FrameFileName(<<"f", "r", "a", "m", "e">>, 2) :> OtherImage(2, <<2, 2>>, TRUE)) @@
    (FrameFileName(<<"f", "r", "a", "m", "e">>, 1) :> OtherImage(1, VideoSize, TRUE)) @@
    (<<"n", "a", "m", "e", ".", "t", "x", "t">> :> OtherImage(0, VideoSize, FALSE))

\* a1.png, a1.JPG (same stem), b.PNG (no digits), x2a10.jpeg (two runs of digits)
MixedDir ==
    (<<"a", "1", ".", "p", "n", "g">> :> OtherImage(1, VideoSize, TRUE)) @@
    (<<"a", "1", ".", "J", "P", "G">> :> OtherImage(2, VideoSize, TRUE)) @@
    (<<"b", ".", "P", "N", "G">> :> OtherImage(3, VideoSize, TRUE)) @@
    (<<"x", "2", "a", "1", "0", ".", "j", "p", "e", "g">> :> OtherImage(4, <<2, 2>>, TRUE))

\* a text file, a name that is only an extension, a name ending in a dot
NoImageDir ==
    (<<"n", "a", "m", "e", ".", "t", "x", "t">> :> OtherImage(0, VideoSize, FALSE)) @@
    (<<".", "p", "n", "g">> :> OtherImage(1, VideoSize, TRUE)) @@
    (<<"p", "n", "g", ".">> :> OtherImage(2, VideoSize, TRUE))

\* 9.png, 10.png and a file that cannot be decoded
BrokenDir ==
    (<<"9", ".", "p", "n", "g">> :> OtherImage(9, VideoSize, TRUE)) @@
    (<<"1", "0", ".", "p", "n", "g">> :> OtherImage(10, VideoSize, TRUE)) @@
    (<<"b", "1", "1", ".", "j", "p", "g">> :> OtherImage(11, VideoSize, FALSE))

\* an undecodable first image
BrokenFirstDir ==
    (<<"b", ".", "P", "N", "G">> :> OtherImage(3, VideoSize, FALSE)) @@
    (<<"9", ".", "p", "n", "g">> :> OtherImage(9, VideoSize, TRUE))

\* b1.png, b1.jpg, b1.JPG (three files with one key), b.png and a text file
TieDir ==
    (<<"b", "1", ".", "p", "n", "g">> :> OtherImage(0, VideoSize, TRUE)) @@
    (<<"b", "1", ".", "j", "p", "g">> :> OtherImage(1, VideoSize, TRUE)) @@
    (<<"b", "1", ".", "J", "P", "G">> :> OtherImage(2, VideoSize, TRUE)) @@
    (<<"b", ".", "p", "n", "g">> :> OtherImage(3, VideoSize, TRUE)) @@
    (<<"n", "a", "m", "e", ".", "t", "x", "t">> :> OtherImage(0, VideoSize, FALSE))

AssembleDirs == {NumberedDir, MixedDir, TieDir, NoImageDir, BrokenDir, BrokenFirstDir}

\* every order of the elements of S
RECURSIVE Perms(_)
Perms(S) ==
    IF S = {} THEN {<<>>}
    ELSE UNION {{<<x>> \o p : p \in Perms(S \ {x})} : x \in S}

\* the orders frames_dir.iterdir() may return the entries in: the order is
\* left to the file system, so every order
Listings(S) == Perms(S)

NoWriter == [open |-> FALSE, made |-> FALSE, fps |-> 0, size |-> <<0, 0>>, frames |-> <<>>]

\* ------------------------------------------------------------------- Init
PlanIdle ==
    /\ total_frames = 0
    /\ num_samples = 0
    /\ indices = [err |-> "none", val |-> <<>>]

ExtractLocalsInit ==
    /\ opens_done = 0
    /\ open_caps = {}
    /\ cap_ok = FALSE
    /\ meta_frame_count = 0
    /\ count = 0
    /\ counted = FALSE
    /\ target_indices = <<>>
    /\ frame_idx = 0
    /\ write_ordinal = 0
    /\ saved_paths = <<>>
    /\ extract_result = "none"

ExtractIdle ==
    /\ video = [reported |-> 0, actual |-> 0]
    /\ open_fail_at = 0
    /\ num_frames = 0
    /\ prefix = <<>>
    /\ imwrite_fail = -1
    /\ ExtractLocalsInit

AssembleLocalsInit ==
    /\ listing = <<>>
    /\ images = <<>>
    /\ fps = NoFps
    /\ size = <<0, 0>>
    /\ img_i = 0
    /\ writer = NoWriter
    /\ assemble_result = "none"

AssembleIdle ==
    /\ fps_arg = NoFps
    /\ ref_video = NoRef
    /\ codec_ok = FALSE
    /\ AssembleLocalsInit

\* python video_frames_pipeline.py extract --video .. --out_dir .. --num .. --prefix ..
ExtractInit ==
    /\ cmd = "extract"
    /\ pc = "extract_start"
    /\ video \in [reported : 0..MaxFrames, actual : 0..MaxFrames]
    /\ open_fail_at \in 0..3
    /\ num_frames \in 0..(MaxFrames + 1)
    /\ prefix \in Prefixes
    /\ imwrite_fail \in {-1, 0, 1}
    /\ dir \in ExtractDirs
    /\ dir0 = dir
    /\ ExtractLocalsInit
    /\ PlanIdle
    /\ AssembleIdle

\* python video_frames_pipeline.py assemble --frames_dir .. --out .. [--fps ..] [--ref_video ..]
AssembleInit ==
    /\ cmd = "assemble"
    /\ pc = "list"
    /\ dir \in AssembleDirs
    /\ dir0 = dir
    /\ fps_arg \in FpsArgs
    /\ ref_video \in RefVideos
    /\ codec_ok \in BOOLEAN
    /\ AssembleLocalsInit
    /\ PlanIdle
    /\ ExtractIdle

Init == ExtractInit \/ AssembleInit

\* the planner called on its own
PlanInit ==
    /\ cmd = "plan"
    /\ pc = "plan_start"
    /\ total_frames \in 0..MaxTotal
    /\ num_samples \in 0..(MaxTotal + 1)
    /\ indices = [err |-> "none", val |-> <<>>]
    /\ dir = EmptyDir
    /\ dir0 = dir
    /\ ExtractIdle
    /\ AssembleIdle

\* ---------------------------------------------------------------- planner
\* lines 63-88
PlanCall ==
    /\ pc = "plan_start"
    /\ indices' = compute_sample_indices(total_frames, num_samples)
    /\ pc' = "done"
    /\ UNCHANGED <<cmd, total_frames, num_samples, extractInputs, extractLocals, dir,
                   assembleInputs, assembleLocals>>

\* ---------------------------------------------------------- extract_frames
\* cap.release() of the capture in use
Released == open_caps \ {opens_done}

\* lines 97-100: _ensure_dir, then _get_video_meta (lines 50-60), which opens
\* a capture of its own and releases it before it returns
GetVideoMeta ==
    /\ pc = "extract_start"
    /\ opens_done' = 1
    /\ IF open_fail_at = 1
       THEN /\ extract_result' = "OpenFailure"
            /\ pc' = "done"
            /\ UNCHANGED meta_frame_count
       ELSE /\ meta_frame_count' = video.reported
            /\ pc' = "open_cap"
            /\ UNCHANGED extract_result
    /\ UNCHANGED <<cmd, planVars, extractInputs, open_caps, cap_ok, count, counted,
                   target_indices, frame_idx, write_ordinal, saved_paths, dir,
                   assembleInputs, assembleLocals>>

\* lines 101-106
OpenCap ==
    /\ pc = "open_cap"
    /\ opens_done' = 2
    /\ IF open_fail_at = 2
       THEN /\ extract_result' = "OpenFailure"
            /\ pc' = "done"
            /\ UNCHANGED <<open_caps, cap_ok>>
       ELSE /\ open_caps' = open_caps \cup {2}
            /\ cap_ok' = TRUE
            /\ pc' = IF meta_frame_count = 0 THEN "count" ELSE "plan"
            /\ UNCHANGED extract_result
    /\ UNCHANGED <<cmd, planVars, extractInputs, meta_frame_count, count, counted,
                   target_indices, frame_idx, write_ordinal, saved_paths, dir,
                   assembleInputs, assembleLocals>>

\* lines 108-112: one successful read of the counting pass
CountRead ==
    /\ pc = "count"
    /\ count < video.actual
    /\ count' = count + 1
    /\ UNCHANGED <<cmd, pc, planVars, extractInputs, opens_done, open_caps, cap_ok,
                   meta_frame_count, counted, target_indices, frame_idx, write_ordinal,
                   saved_paths, extract_result, dir, assembleInputs, assembleLocals>>

\* lines 110-115: the read fails, the capture is released and a new one is
\* made, whose isOpened() is not looked at
CountDone ==
    /\ pc = "count"
    /\ count = video.actual
    /\ opens_done' = 3
    /\ IF open_fail_at = 3
       THEN /\ open_caps' = Released
            /\ cap_ok' = FALSE
       ELSE /\ open_caps' = Released \cup {3}
            /\ cap_ok' = TRUE
    /\ meta_frame_count' = count
    /\ counted' = TRUE
    /\ pc' = "plan"
    /\ UNCHANGED <<cmd, planVars, extractInputs, count, target_indices, frame_idx,
                   write_ordinal, saved_paths, extract_result, dir, assembleInputs,
                   assembleLocals>>

\* lines 117-122: the planner's ValueError leaves the function at once
Plan ==
    /\ pc = "plan"
    /\ LET r == compute_sample_indices(meta_frame_count, num_frames)
       IN  IF r.err # "none"
           THEN /\ extract_result' = "InvalidInput"
                /\ pc' = "done"
                /\ UNCHANGED target_indices
           ELSE /\ target_indices' = r.val
                /\ pc' = "pass"
                /\ UNCHANGED extract_result
    /\ frame_idx' = 0
    /\ write_ordinal' = 0
    /\ saved_paths' = <<>>
    /\ UNCHANGED <<cmd, planVars, extractInputs, opens_done, open_caps, cap_ok,
                   meta_frame_count, count, counted, dir, assembleInputs, assembleLocals>>

\* lines 125-138: one successful read of the extraction pass
ReadFrame ==
    /\ pc = "pass"
    /\ cap_ok
    /\ frame_idx < video.actual
    /\ IF frame_idx \in Range(target_indices)
       THEN LET filename == FrameFileName(prefix, write_ordinal)
            IN  IF imwrite_fail = write_ordinal
                THEN /\ open_caps' = Released
                     /\ extract_result' = "WriteFailure"
                     /\ pc' = "done"
                     /\ UNCHANGED <<dir, saved_paths, write_ordinal, frame_idx>>
                ELSE /\ dir' = (filename :> VideoFrame(frame_idx)) @@ dir
                     /\ saved_paths' = Append(saved_paths, filename)
                     /\ write_ordinal' = write_ordinal + 1
                     /\ frame_idx' = frame_idx + 1
                     /\ UNCHANGED <<open_caps, extract_result, pc>>
       ELSE /\ frame_idx' = frame_idx + 1
            /\ UNCHANGED <<dir, saved_paths, write_ordinal, open_caps, extract_result, pc>>
    /\ UNCHANGED <<cmd, planVars, extractInputs, opens_done, cap_ok, meta_frame_count,
                   count, counted, target_indices, assembleInputs, assembleLocals>>

\* lines 125-127 and 140-145: the read fails and the pass ends
EndOfStream ==
    /\ pc = "pass"
    /\ ~(cap_ok /\ frame_idx < video.actual)
    /\ open_caps' = Released
    /\ extract_result' = IF Len(saved_paths) = 0 THEN "EmptyResult" ELSE "returned"
    /\ pc' = "done"
    /\ UNCHANGED <<cmd, planVars, extractInputs, opens_done, cap_ok, meta_frame_count,
                   count, counted, target_indices, frame_idx, write_ordinal, saved_paths,
                   dir, assembleInputs, assembleLocals>>

\* ---------------------------------------------------------- frames_to_video
\* the assemble command is run on the directory extract has just filled
AssembleAfterExtract ==
    /\ cmd = "extract"
    /\ pc = "done"
    /\ extract_result = "returned"
    /\ cmd' = "roundtrip"
    /\ pc' = "list"
    /\ fps_arg' \in FpsArgs
    /\ ref_video' = NoRef
    /\ codec_ok' \in BOOLEAN
    /\ UNCHANGED <<planVars, extractInputs, extractLocals, dir, assembleLocals>>

\* lines 161-166
ListImages ==
    /\ pc = "list"
    /\ \E l \in Listings(DOMAIN dir) :
          /\ listing' = l
          /\ images' = SortedByKey(SelectSeq(l, IsImage))
    /\ IF images' = <<>>
       THEN /\ assemble_result' = "EmptyResult"
            /\ pc' = "done"
       ELSE /\ pc' = "fps"
            /\ UNCHANGED assemble_result
    /\ UNCHANGED <<cmd, planVars, extractInputs, extractLocals, dir, assembleInputs,
                   fps, size, img_i, writer>>

\* faulty variant: the reported fps is used unchecked
RefFpsUnchecked(ref_fps) == ref_fps

\* line 171: fps = ref_fps if ref_fps > 0 else 30.0
RefFps(ref_fps) == IF ref_fps > 0 THEN ref_fps ELSE DefaultFps

\* lines 168-173; _get_video_meta raises when the reference does not open
ResolveFps ==
    /\ pc = "fps"
    /\ IF ~fps_arg.some /\ ref_video.given /\ ref_video.exists
       THEN IF ~ref_video.opens
            THEN /\ assemble_result' = "OpenFailure"
                 /\ pc' = "done"
                 /\ UNCHANGED fps
            ELSE /\ fps' = SomeFps(RefFps(ref_video.fps))
                 /\ pc' = "first"
                 /\ UNCHANGED assemble_result
       ELSE /\ fps' = IF ~fps_arg.some THEN SomeFps(DefaultFps) ELSE fps_arg
            /\ pc' = "first"
            /\ UNCHANGED assemble_result
    /\ UNCHANGED <<cmd, planVars, extractInputs, extractLocals, dir, assembleInputs,
                   listing, images, size, img_i, writer>>

\* lines 175-180
ReadFirst ==
    /\ pc = "first"
    /\ IF ~dir[images[1]].readable
       THEN /\ assemble_result' = "ReadFailure"
            /\ pc' = "done"
            /\ UNCHANGED size
       ELSE /\ size' = dir[images[1]].size
            /\ pc' = "writer"
            /\ UNCHANGED assemble_result
    /\ UNCHANGED <<cmd, planVars, extractInputs, extractLocals, dir, assembleInputs,
                   listing, images, fps, img_i, writer>>

\* lines 182-188
OpenWriter ==
    /\ pc = "writer"
    /\ writer' = [open |-> codec_ok, made |-> TRUE, fps |-> fps.val, size |-> size,
                  frames |-> <<>>]
    /\ IF ~codec_ok
       THEN /\ assemble_result' = "OpenFailure"
            /\ pc' = "done"
            /\ UNCHANGED img_i
       ELSE /\ img_i' = 1
            /\ pc' = "write"
            /\ UNCHANGED assemble_result
    /\ UNCHANGED <<cmd, planVars, extractInputs, extractLocals, dir, assembleInputs,
                   listing, images, fps, size>>

\* line 197: cv2.resize(frame, size, interpolation=cv2.INTER_AREA)
Resize(frame, sz) == [frame EXCEPT !.size = sz]

\* lines 191-198: one turn of the write loop
WriteFrame ==
    /\ pc = "write"
    /\ img_i <= Len(images)
    /\ LET frame == dir[images[img_i]]
       IN  IF ~frame.readable
           THEN /\ writer' = [writer EXCEPT !.open = FALSE]
                /\ assemble_result' = "ReadFailure"
                /\ pc' = "done"
                /\ UNCHANGED img_i
           ELSE /\ writer' = [writer EXCEPT !.frames =
                                 Append(@, IF frame.size # size THEN Resize(frame, size)
                                           ELSE frame)]
                /\ img_i' = img_i + 1
                /\ UNCHANGED <<assemble_result, pc>>
    /\ UNCHANGED <<cmd, planVars, extractInputs, extractLocals, dir, assembleInputs,
                   listing, images, fps, size>>

\* line 200
ReleaseWriter ==
    /\ pc = "write"
    /\ img_i > Len(images)
    /\ writer' = [writer EXCEPT !.open = FALSE]
    /\ assemble_result' = "returned"
    /\ pc' = "done"
    /\ UNCHANGED <<cmd, planVars, extractInputs, extractLocals, dir, assembleInputs,
                   listing, images, fps, size, img_i>>

\* ----------------------------------------------------------- specifications
Next ==
    \/ GetVideoMeta
    \/ OpenCap
    \/ CountRead
    \/ CountDone
    \/ Plan
    \/ ReadFrame
    \/ EndOfStream
    \/ AssembleAfterExtract
    \/ ListImages
    \/ ResolveFps
    \/ ReadFirst
    \/ OpenWriter
    \/ WriteFrame
    \/ ReleaseWriter

Spec == Init /\ [][Next]_vars

PlanNext == PlanCall

PlanSpec == PlanInit /\ [][PlanNext]_vars

\* ------------------------------------------------------------------ claims
StrictlyIncreasing(s) == \A i \in 1..(Len(s) - 1) : s[i] < s[i + 1]

PlanReturned == cmd = "plan" /\ pc = "done" /\ indices.err = "none"

\* C1: for total_frames >= 1 and num_samples >= 1 the planner returns a
\* strictly increasing sequence of integers in [0, total_frames - 1] of
\* length at most min(num_samples, total_frames).
C1_PlannerSound ==
    (cmd = "plan" /\ pc = "done" /\ total_frames >= 1 /\ num_samples >= 1) =>
        /\ indices.err = "none"
        /\ StrictlyIncreasing(indices.val)
        /\ \A i \in 1..Len(indices.val) :
              indices.val[i] >= 0 /\ indices.val[i] <= total_frames - 1
        /\ Len(indices.val) <= num_samples
        /\ Len(indices.val) <= total_frames

C1_Witness ==
    PlanReturned /\ total_frames = 10 /\ num_samples = 4 /\ indices.val = <<0, 3, 6, 9>>

\* C2: for 2 <= num_samples <= total_frames the first index returned is 0
\* and the last is total_frames - 1.
C2_FirstAndLast ==
    (cmd = "plan" /\ pc = "done" /\ 2 <= num_samples /\ num_samples <= total_frames) =>
        /\ indices.err = "none"
        /\ Len(indices.val) >= 2
        /\ indices.val[1] = 0
        /\ indices.val[Len(indices.val)] = total_frames - 1

\* 12 frames, 5 samples: 0, 2.75, 5.5, 8.25, 11 round to 0, 3, 6, 8, 11
C2_Witness ==
    PlanReturned /\ total_frames = 12 /\ num_samples = 5 /\ indices.val = <<0, 3, 6, 8, 11>>

\* C9: for total_frames >= 1 and num_samples >= 1 the planner returns exactly
\* min(num_samples, total_frames) indices: the deduplication removes nothing.
C9_ExactCount ==
    (cmd = "plan" /\ pc = "done" /\ total_frames >= 1 /\ num_samples >= 1) =>
        /\ indices.err = "none"
        /\ Len(indices.val) = IF num_samples <= total_frames THEN num_samples
                              ELSE total_frames

\* 6 frames, 3 samples: the tie 2.5 rounds to 2 and the three stay distinct
C9_Witness ==
    PlanReturned /\ total_frames = 6 /\ num_samples = 3 /\ indices.val = <<0, 2, 5>>

\* C3: an invocation of extract_frames that returns normally has written one
\* file for every planned sample index.
C3_NoPartialSuccess ==
    extract_result = "returned" => Len(saved_paths) = Len(target_indices)

\* C4: once extract_frames has returned or raised, every capture it opened
\* has been released.
C4_CapturesReleased ==
    extract_result # "none" => open_caps = {}

\* the reported frame count is the number of decodable frames, 1 <= N <= F,
\* extract returned, assemble was then run with an explicit fps and returned
RoundTripDone ==
    /\ cmd = "roundtrip"
    /\ assemble_result = "returned"
    /\ video.reported = video.actual
    /\ 1 <= num_frames
    /\ num_frames <= video.reported
    /\ fps_arg.some

RoundTripCounts ==
    /\ Len(writer.frames) = Len(saved_paths)
    /\ Len(saved_paths) = Len(target_indices)

\* C5 as stated: extract into a directory, then assemble on it with an
\* explicit fps, gives a video with as many frames as extract wrote files,
\* which is the length of the planned index sequence.
C5_RoundTripAnyDir == RoundTripDone => RoundTripCounts

\* every accepted image that was in the directory before the run has been
\* overwritten by the run
NoOtherImages == \A n \in DOMAIN dir0 : IsImage(n) => n \in Range(saved_paths)

\* C5 amended: the round trip preserves the count when the directory held no
\* accepted image beforehand other than files the run overwrites.
C5_RoundTrip == (RoundTripDone /\ NoOtherImages) => RoundTripCounts

C5_Witness ==
    /\ RoundTripDone
    /\ NoOtherImages
    /\ dir0 = RerunDir
    /\ Len(writer.frames) = 3
    /\ video.actual = 4

\* C6: the order in which frames_to_video takes the accepted images is the
\* same for every order in which the directory listing returns the entries.
C6_ListingOrderIrrelevant ==
    (cmd = "assemble" /\ pc # "list") =>
        \A l \in Perms(DOMAIN dir) : SortedByKey(SelectSeq(l, IsImage)) = images

WriterMade == cmd \in {"assemble", "roundtrip"} /\ writer.made

\* C7: the frame rate handed to the encoder is the explicit fps if there is
\* one; otherwise the reference video's fps if a reference was given, exists
\* and reports fps > 0; otherwise 30.
C7_FpsPrecedence ==
    WriterMade =>
        writer.fps = IF fps_arg.some THEN fps_arg.val
                     ELSE IF ref_video.given /\ ref_video.exists /\ ref_video.fps > 0
                          THEN ref_video.fps
                          ELSE 30

\* no explicit fps, a reference that exists and reports fps 0: 30 is used
C7_Witness ==
    /\ WriterMade
    /\ ~fps_arg.some
    /\ ref_video.given /\ ref_video.exists /\ ref_video.fps = 0
    /\ writer.fps = 30

\* the run is over, every capture it made opened, num_frames >= 1 and no
\* image write failed
ExtractOver ==
    /\ cmd \in {"extract", "roundtrip"}
    /\ extract_result # "none"
    /\ (open_fail_at = 0 \/ open_fail_at > opens_done)
    /\ num_frames >= 1
    /\ extract_result # "WriteFailure"

NoPlannedIndexDecodable ==
    \A k \in 1..Len(target_indices) : target_indices[k] >= video.actual

\* C8 as stated: the run fails with EmptyResult exactly when no planned index
\* is smaller than the number of decodable frames; then the count used for
\* planning differs from that number and did not come from the counting pass.
C8_EmptyResultAnyCount ==
    ExtractOver =>
        /\ (extract_result = "EmptyResult") <=> NoPlannedIndexDecodable
        /\ extract_result = "EmptyResult" =>
              (meta_frame_count # video.actual /\ ~counted)

\* C8 amended: the same, for a frame count used for planning of at least 1
\* (with a count of 0 the planner raises InvalidInput and there is no plan).
C8_EmptyResult ==
    (ExtractOver /\ meta_frame_count >= 1) =>
        /\ (extract_result = "EmptyResult") <=> NoPlannedIndexDecodable
        /\ extract_result = "EmptyResult" =>
              (meta_frame_count # video.actual /\ ~counted)

\* 4 frames reported, 2 decodable, one sample planned at index 2
C8_Witness ==
    /\ ExtractOver
    /\ extract_result = "EmptyResult"
    /\ video = [reported |-> 4, actual |-> 2]
    /\ target_indices = <<2>>

PassStarted ==
    /\ cmd \in {"extract", "roundtrip"}
    /\ (pc = "pass" \/ extract_result \in {"returned", "EmptyResult", "WriteFailure"})

\* the k-th smallest element of S
KthSmallest(S, k) == CHOOSE x \in S : Cardinality({y \in S : y < x}) = k - 1

\* name is <pre>_<k as six digits>.png
IsFrameName(name, pre, k) ==
    LET p == Len(pre)
    IN  /\ Len(name) = p + 11
        /\ SubSeq(name, 1, p) = pre
        /\ name[p + 1] = "_"
        /\ \A i \in (p + 2)..(p + 7) : IsDigit(name[i])
        /\ ParseInt(SubSeq(name, p + 2, p + 7)) = k
        /\ SubSeq(name, p + 8, p + 11) = <<".", "p", "n", "g">>

\* C10: throughout the extraction pass write_ordinal is the number of paths
\* saved, which is the number of planned indices below the read index; the
\* k-th file (k from 0) is <prefix>_<k, six digits>.png and holds the frame
\* at the k-th smallest planned index, so the saved frames are in source order.
C10_OrdinalsContiguous ==
    PassStarted =>
        /\ write_ordinal = Len(saved_paths)
        /\ write_ordinal = Cardinality({i \in Range(target_indices) : i < frame_idx})
        /\ \A k \in 1..Len(saved_paths) :
              /\ IsFrameName(saved_paths[k], prefix, k - 1)
              /\ dir[saved_paths[k]] = VideoFrame(KthSmallest(Range(target_indices), k))
        /\ \A j, k \in 1..Len(saved_paths) :
              j < k => dir[saved_paths[j]].idx < dir[saved_paths[k]].idx

\* indices 0 and 3 planned, both written, frames 1 and 2 skipped
C10_Witness ==
    /\ pc = "pass"
    /\ target_indices = <<0, 3>>
    /\ frame_idx = 4
    /\ write_ordinal = 2
    /\ dir0 = UsedDir
====
